---- MODULE Spec2Model ----
(***************************************************************************)
(* Email invoice bot: the batch loop of main.py (process_all), its parsing *)
(* helpers, the workbook ledger and the scoring wrapper of ai_fraud_ml.py. *)
(*                                                                         *)
(* Encoding of Python values:                                              *)
(*   str    a sequence of one-character strings ("" is <<>>)               *)
(*   None   the 1-tuple <<"None">>                                         *)
(*   float  <<"float", c>>, c the value in hundredths (250.00 is 25000)    *)
(*   int    <<"int", n>>                                                   *)
(*   bool   TRUE / FALSE                                                   *)
(***************************************************************************)
EXTENDS Integers, Sequences, FiniteSets, TLC

\* ------------------------------------------------------------------ bounds
MaxMsgs == 2        \* largest mailbox listing
MaxRuns == 2        \* process_all invocations in one behaviour

\* ------------------------------------------------------ Python value model
None == <<"None">>
PyFloat(c) == <<"float", c>>
PyInt(n) == <<"int", n>>
IsNone(v) == Len(v) = 1 /\ v[1] = "None"
IsFloat(v) == Len(v) = 2 /\ v[1] = "float"

Whitespace == {" ", "\n", "\t"}
Digits == <<"0","1","2","3","4","5","6","7","8","9">>
UpperCase == <<"A","B","C","D","E","F","G","H","I","J","K","L","M","N","O","P","Q","R","S","T","U","V","W","X","Y","Z">>
LowerCase == <<"a","b","c","d","e","f","g","h","i","j","k","l","m","n","o","p","q","r","s","t","u","v","w","x","y","z">>
\* the characters of the model's texts, in code-point order
CharOrder == <<"\t", "\n", " ", "#", "$", ",", ".">> \o Digits \o <<":", "<", ">", "@">> \o UpperCase \o LowerCase

IsDigit(c) == \E k \in 1..10 : Digits[k] = c
DigitVal(c) == (CHOOSE k \in 1..10 : Digits[k] = c) - 1
Rank(c) == CHOOSE k \in 1..Len(CharOrder) : CharOrder[k] = c

\* str.lower() on one character / on a string
LowerChar(c) == IF \E k \in 1..26 : UpperCase[k] = c
                THEN LowerCase[CHOOSE k \in 1..26 : UpperCase[k] = c]
                ELSE c
lower(s) == [k \in 1..Len(s) |-> LowerChar(s[k])]

\* w in s
contains(s, w) == \E p \in 0..(Len(s) - Len(w)) : \A j \in 1..Len(w) : s[p + j] = w[j]
\* s.endswith(w)
endswith(s, w) == Len(s) >= Len(w) /\ \A j \in 1..Len(w) : s[Len(s) - Len(w) + j] = w[j]
\* s[a:b] with 0-based, in-range Python indices
slice(s, a, b) == IF b <= a THEN <<>> ELSE SubSeq(s, a + 1, b)
\* s.find(c, from): 0-based index of the first c at or after index from, -1 if none
RECURSIVE find(_, _, _)
find(s, c, from) == IF from >= Len(s) THEN -1
                    ELSE IF s[from + 1] = c THEN from
                    ELSE find(s, c, from + 1)
\* s.rfind(c)
RECURSIVE rfindFrom(_, _, _)
rfindFrom(s, c, k) == IF k = 0 THEN -1
                      ELSE IF s[k] = c THEN k - 1
                      ELSE rfindFrom(s, c, k - 1)
rfind(s, c) == rfindFrom(s, c, Len(s))

RECURSIVE lstripSet(_, _)
lstripSet(s, cs) == IF s # <<>> /\ s[1] \in cs THEN lstripSet(Tail(s), cs) ELSE s
RECURSIVE rstripSet(_, _)
rstripSet(s, cs) == IF s # <<>> /\ s[Len(s)] \in cs THEN rstripSet(SubSeq(s, 1, Len(s) - 1), cs) ELSE s
strip(s) == rstripSet(lstripSet(s, Whitespace), Whitespace)

\* sep.join(list)
RECURSIVE join(_, _)
join(sep, list) == IF list = <<>> THEN <<>>
                   ELSE IF Len(list) = 1 THEN list[1]
                   ELSE list[1] \o sep \o join(sep, Tail(list))

\* a < b on strings (code-point lexicographic order, as sorted() uses)
RECURSIVE StrLess(_, _)
StrLess(a, b) == IF b = <<>> THEN FALSE
                 ELSE IF a = <<>> THEN TRUE
                 ELSE IF a[1] = b[1] THEN StrLess(Tail(a), Tail(b))
                 ELSE Rank(a[1]) < Rank(b[1])
\* sorted(set(list))
RECURSIVE sortedSet(_)
sortedSet(S) == IF S = {} THEN <<>>
                ELSE LET m == CHOOSE x \in S : \A y \in S \ {x} : StrLess(x, y)
                     IN <<m>> \o sortedSet(S \ {m})
Range(seq) == {seq[k] : k \in 1..Len(seq)}

\* the decimal value of a run of digits
RECURSIVE DigitsVal(_)
DigitsVal(ds) == IF ds = <<>> THEN 0
                 ELSE 10 * DigitsVal(SubSeq(ds, 1, Len(ds) - 1)) + DigitVal(ds[Len(ds)])

\* ------------------------------------------------- main.py parsing helpers
\* email.utils.parseaddr(v)[1] for the two shapes "Name <addr>" and "addr"
parseaddr(v) == LET lt == find(v, "<", 0)
                    gt == IF lt < 0 THEN -1 ELSE find(v, ">", lt)
                IN IF lt >= 0 /\ gt >= 0 THEN slice(v, lt + 1, gt) ELSE strip(v)

\* s.split("@")[1]
splitAt1(s) == LET a == find(s, "@", 0)
                   b == find(s, "@", a + 1)
               IN slice(s, a + 1, IF b < 0 THEN Len(s) ELSE b)

domain_from_header(header_value) ==
    LET email_addr == parseaddr(header_value)
    IN IF email_addr # <<>> /\ contains(email_addr, <<"@">>)
       THEN lower(splitAt1(email_addr))
       ELSE <<>>

\* os.path.splitext(n)[1] for a name without directory separators
splitext1(n) == LET dot == rfind(n, ".")
                IN IF dot < 0 \/ lstripSet(slice(n, 0, dot), {"."}) = <<>>
                   THEN <<>>
                   ELSE slice(n, dot, Len(n))

RECURSIVE extsOf(_)
extsOf(names) == IF names = <<>> THEN <<>>
                 ELSE LET ext == splitext1(strip(names[1]))
                      IN (IF ext # <<>> THEN <<lower(lstripSet(ext, {"."}))>> ELSE <<>>)
                         \o extsOf(Tail(names))

attachment_types_from_list(names) ==
    LET exts == extsOf(names)
    IN IF exts # <<>> THEN join(<<",">>, sortedSet(Range(exts))) ELSE <<>>

\* end (exclusive, 0-based) of the maximal digit run starting at index p
RECURSIVE digitRunEnd(_, _)
digitRunEnd(text, p) == IF p < Len(text) /\ IsDigit(text[p + 1])
                        THEN digitRunEnd(text, p + 1) ELSE p
\* index of the first digit at or after index p, -1 if none
RECURSIVE firstDigit(_, _)
firstDigit(text, p) == IF p >= Len(text) THEN -1
                       ELSE IF IsDigit(text[p + 1]) THEN p
                       ELSE firstDigit(text, p + 1)

\* re.search(r'([0-9]+(?:\.[0-9]{2})?)', text), then float()
extract_amount_guess(text) ==
    IF text = <<>> THEN None
    ELSE LET s == firstDigit(text, 0)
             e == digitRunEnd(text, s)
             frac == e + 3 <= Len(text) /\ text[e + 1] = "."
                     /\ IsDigit(text[e + 2]) /\ IsDigit(text[e + 3])
         IN IF s < 0 THEN None
            ELSE PyFloat(100 * DigitsVal(slice(text, s, e))
                       + (IF frac THEN DigitsVal(slice(text, e + 1, e + 3)) ELSE 0))

decode_mime_header(raw_value) ==
    IF IsNone(raw_value) \/ raw_value = <<>> THEN <<>> ELSE raw_value

\* ------------------------------------------------------------ MIME messages
\* A parsed message: its headers (a str, or None when the header is absent),
\* whether it is multipart, and its leaf parts in document order.  A part has
\* a content type, a Content-Disposition value, a file name (or None), its
\* text content and the length of its decoded payload.
Part(ctype, disp, filename, content, size) ==
    [ctype |-> ctype, disp |-> disp, filename |-> filename, content |-> content, size |-> size]

\* scenario A: keyword in the subject, an invoice number before the amount
MsgA == [Subject |-> <<"I","n","v","o","i","c","e"," ","#","1","2","3","4"," ","d","u","e">>,
         From |-> <<"B","i","l","l"," ","<","b","i","l","l","@","a","c","m","e",".","c","o","m",">">>,
         ReplyTo |-> None,
         Date |-> <<"2"," ","N","o","v">>,
         MessageID |-> <<"<","m","1","@","a","c","m","e",".","c","o","m",">">>,
         multipart |-> TRUE,
         parts |-> << Part("text/plain", <<>>, None,
                           <<"P","l","e","a","s","e"," ","p","a","y"," ","$","2","5","0",".","0","0"," ","t","o"," ","a","c","m","e",".","c","o","m">>, 30),
                      Part("application/pdf", <<"a","t","t","a","c","h","m","e","n","t">>,
                           <<"i","n","v","o","i","c","e",".","p","d","f">>, <<>>, 7) >>]
\* scenario B: no keyword anywhere
MsgB == [Subject |-> <<"T","e","a","m"," ","l","u","n","c","h"," ","F","r","i","d","a","y">>,
         From |-> <<"A","n","n"," ","<","a","n","n","@","c","o","r","p",".","e","x","a","m","p","l","e",">">>,
         ReplyTo |-> None,
         Date |-> <<"3"," ","N","o","v">>,
         MessageID |-> <<"<","m","2","@","c","o","r","p",".","e","x","a","m","p","l","e",">">>,
         multipart |-> FALSE,
         parts |-> << Part("text/plain", <<>>, None,
                           <<"L","u","n","c","h"," ","a","t"," ","n","o","o","n"," ","o","n"," ","F","r","i","d","a","y">>, 23) >>]
\* keyword only in the body and in upper case, bare sender address, a
\* Reply-To, two attachments of which one is a PDF by name only
MsgC == [Subject |-> <<"R","e",":"," ","p","a","y","m","e","n","t">>,
         From |-> <<"b","i","l","l","i","n","g","@","P","a","y",".","E","x","a","m","p","l","e">>,
         ReplyTo |-> <<"O","p","s"," ","<","o","p","s","@","e","v","i","l",".","e","x","a","m","p","l","e",">">>,
         Date |-> <<"3"," ","N","o","v">>,
         MessageID |-> None,
         multipart |-> TRUE,
         parts |-> << Part("text/plain", <<>>, None,
                           <<"I","N","V","O","I","C","E"," ","a","t","t","a","c","h","e","d",","," ","t","o","t","a","l"," ","9","9",".","5">>, 28),
                      Part("application/octet-stream", <<"A","t","t","a","c","h","m","e","n","t">>,
                           <<"S","c","a","n",".","P","D","F">>, <<>>, 5),
                      Part("image/png", <<"a","t","t","a","c","h","m","e","n","t">>,
                           <<"l","o","g","o",".","p","n","g">>, <<>>, 0) >>]
\* the mailbox holds messages by name
Message == [A |-> MsgA, B |-> MsgB, C |-> MsgC]
Messages == DOMAIN Message

RECURSIVE plainParts(_)
plainParts(ps) ==
    IF ps = <<>> THEN <<>>
    ELSE (IF ps[1].ctype = "text/plain"
             /\ ~contains(lower(ps[1].disp), <<"a","t","t","a","c","h","m","e","n","t">>)
          THEN <<ps[1].content>> ELSE <<>>) \o plainParts(Tail(ps))

extract_text_body(msg) ==
    IF msg.multipart
    THEN strip(join(<<"\n">>, plainParts(msg.parts)))
    ELSE IF msg.parts[1].ctype = "text/plain" THEN msg.parts[1].content ELSE <<>>

\* one attachment tuple (fname, size, is_pdf, data); save is False, so data is None
attachmentOf(part) ==
    LET decoded == decode_mime_header(part.filename)
        fname == IF decoded # <<>> THEN decoded ELSE <<"u","n","n","a","m","e","d">>
    IN [fname |-> fname,
        size |-> part.size,
        is_pdf |-> (part.ctype = "application/pdf") \/ endswith(lower(fname), <<".","p","d","f">>),
        data |-> None]

RECURSIVE attachmentsOf(_)
attachmentsOf(ps) ==
    IF ps = <<>> THEN <<>>
    ELSE (IF contains(lower(ps[1].disp), <<"a","t","t","a","c","h","m","e","n","t">>)
          THEN <<attachmentOf(ps[1])>> ELSE <<>>) \o attachmentsOf(Tail(ps))

list_attachments(msg) == attachmentsOf(msg.parts)

\* looks_like_invoice without .lower(): a case-sensitive keyword test
looks_like_invoice_case_sensitive(subject, body, attachments) ==
    LET text == subject \o <<"\n">> \o body
        kw_hit == contains(text, <<"i","n","v","o","i","c","e">>)
    IN [is_invoice |-> kw_hit,
        reason |-> IF kw_hit THEN <<"k","e","y","w","o","r","d">>
                   ELSE <<"n","o"," ","s","t","r","o","n","g"," ","s","i","g","n","a","l">>]

\* ------------------------------------------------------------ invoice gate
looks_like_invoice(subject, body, attachments) ==
    LET text == lower(subject \o <<"\n">> \o body)
        kw_hit == contains(text, <<"i","n","v","o","i","c","e">>)
    IN [is_invoice |-> kw_hit,
        reason |-> IF kw_hit THEN <<"k","e","y","w","o","r","d">>
                   ELSE <<"n","o"," ","s","t","r","o","n","g"," ","s","i","g","n","a","l">>]

\* ------------------------------------------------- ai_fraud_ml.py encoding
AMOUNT_LOW == <<"A","M","O","U","N","T","_","B","I","N",":","L","O","W">>
AMOUNT_MED == <<"A","M","O","U","N","T","_","B","I","N",":","M","E","D">>
AMOUNT_HIGH == <<"A","M","O","U","N","T","_","B","I","N",":","H","I","G","H">>
AMOUNT_UNK == <<"A","M","O","U","N","T","_","B","I","N",":","U","N","K">>

\* float('nan'), numpy.nan: the not-a-number value
NaN == <<"NaN">>
IsNaN(v) == Len(v) = 1 /\ v[1] = "NaN"

\* float(v): [raised, nan, c] with c the value in hundredths.  A float is
\* itself, None raises, a str is stripped and parsed: an optional sign, digits,
\* an optional point with one or two digits, or the word nan; any other text
\* of the model raises ValueError.
float_(v) ==
    IF IsFloat(v) THEN [raised |-> FALSE, nan |-> FALSE, c |-> v[2]]
    ELSE IF IsNaN(v) THEN [raised |-> FALSE, nan |-> TRUE, c |-> 0]
    ELSE IF IsNone(v) THEN [raised |-> TRUE, nan |-> FALSE, c |-> 0]
    ELSE LET s == strip(v)
             signed == s # <<>> /\ s[1] \in {"+", "-"}
             u == IF signed THEN Tail(s) ELSE s
             e == digitRunEnd(u, 0)
             fr == slice(u, e, Len(u))
             fracOK == \/ fr = <<>>
                       \/ /\ Len(fr) \in {2, 3}
                          /\ fr[1] = "."
                          /\ \A k \in 2..Len(fr) : IsDigit(fr[k])
             cents == IF Len(fr) = 3 THEN DigitsVal(Tail(fr))
                      ELSE IF Len(fr) = 2 THEN 10 * DigitsVal(Tail(fr))
                      ELSE 0
             mag == 100 * DigitsVal(slice(u, 0, e)) + cents
         IN IF e > 0 /\ fracOK
            THEN [raised |-> FALSE, nan |-> FALSE,
                  c |-> IF signed /\ s[1] = "-" THEN 0 - mag ELSE mag]
            ELSE IF lower(u) = <<"n", "a", "n">>
            THEN [raised |-> FALSE, nan |-> TRUE, c |-> 0]
            ELSE [raised |-> TRUE, nan |-> FALSE, c |-> 0]

\* ai_fraud_ml._amt_token: float(v) raising gives UNK in the except branch;
\* every comparison with nan is False, so nan falls through to HIGH
_amt_token(v) ==
    LET f == float_(v)
    IN IF f.raised THEN AMOUNT_UNK
       ELSE IF ~f.nan /\ f.c < 100 * 100 THEN AMOUNT_LOW
       ELSE IF ~f.nan /\ f.c < 1000 * 100 THEN AMOUNT_MED
       ELSE AMOUNT_HIGH

\* train_model.amt_token
amt_token(val) ==
    LET f == float_(val)
    IN IF f.raised THEN AMOUNT_UNK
       ELSE IF ~f.nan /\ f.c < 100 * 100 THEN AMOUNT_LOW
       ELSE IF ~f.nan /\ f.c < 1000 * 100 THEN AMOUNT_MED
       ELSE AMOUNT_HIGH

\* x or "" for a str or None
orEmpty(x) == IF IsNone(x) THEN <<>> ELSE x

\* re.sub(r"\s+", " ", txt)
RECURSIVE collapse(_)
collapse(txt) ==
    IF txt = <<>> THEN <<>>
    ELSE IF txt[1] \in Whitespace
         THEN <<" ">> \o collapse(lstripSet(txt, Whitespace))
         ELSE <<txt[1]>> \o collapse(Tail(txt))

FROM_ == <<"F", "R", "O", "M", ":">>
REPLY_ == <<"R", "E", "P", "L", "Y", ":">>
ATTACH_ == <<"A", "T", "T", "A", "C", "H", ":">>

\* ai_fraud_ml._combine
_combine(subject, body, from_domain, reply_domain, attachment_types, amount) ==
    LET txt == join(<<"\n">>, <<orEmpty(subject), orEmpty(body),
                                FROM_ \o lower(orEmpty(from_domain)),
                                REPLY_ \o lower(orEmpty(reply_domain)),
                                ATTACH_ \o lower(orEmpty(attachment_types)),
                                _amt_token(amount)>>)
    IN strip(collapse(txt))

\* train_model.combine; row is the record of the CSV row
combine(row) ==
    LET subject == orEmpty(row.subject)
        body == orEmpty(row.body)
        from_dom == orEmpty(row.from_domain)
        reply_dom == orEmpty(row.reply_domain)
        attach == orEmpty(row.attachment_types)
        amt == row.amount
        txt == join(<<"\n">>, <<subject, body, FROM_ \o from_dom, REPLY_ \o reply_dom,
                                ATTACH_ \o attach, amt_token(amt)>>)
    IN strip(collapse(txt))

\* int(round(proba*100)) for a probability given in thousandths
risk_score_of(permille) == (permille + 5) \div 10

\* What the environment decides for one scoring call: the artifact pair cannot
\* be loaded, the vectorizer/classifier raises, or the classifier answers.
ScoreOutcomes == {"load_fails", "predict_raises", "explain_raises", "ok"}

\* The model artifact of the behaviours: for each message of the model (that
\* is, for its combined text) the positive-class probability in thousandths
\* and the tokens the explanation step finds; C has no vocabulary hit.
Artifact == [A |-> [permille |-> 874, idx |-> <<1, 2, 3>>],
             B |-> [permille |-> 31, idx |-> <<>>],
             C |-> [permille |-> 0, idx |-> <<>>]]
\* vec.get_feature_names_out() and clf.coef_[0] of that artifact
feats == << <<"d","u","e">>, <<"p","a","y">>, <<"t","h","e">> >>
coef_ == <<2, 1, 0 - 1>>

\* What the environment decides for the explanation: it runs, the classifier
\* has no coef_ (AttributeError), or anything else in the try block raises.
ExplainOutcomes == {"ok", "no_coef", "raises"}

\* list.sort(key=lambda x: x[1], reverse=True): by weight, largest first,
\* equal weights in their original order
RECURSIVE sortByWeight(_)
sortByWeight(toks) ==
    IF toks = <<>> THEN <<>>
    ELSE LET k == CHOOSE k \in 1..Len(toks) :
                      /\ \A j \in 1..Len(toks) : toks[j][2] <= toks[k][2]
                      /\ \A j \in 1..(k - 1) : toks[j][2] < toks[k][2]
         IN <<toks[k]>> \o sortByWeight(SubSeq(toks, 1, k - 1) \o SubSeq(toks, k + 1, Len(toks)))

\* top_tokens_of keeping the tokens of weight zero as well
top_tokens_of_nonneg(fts, weights, idx, eo) ==
    IF eo # "ok" THEN <<>>
    ELSE LET toks == sortByWeight([k \in 1..Len(idx) |-> <<fts[idx[k]], weights[idx[k]]>>])
             first5 == SubSeq(toks, 1, IF Len(toks) < 5 THEN Len(toks) ELSE 5)
             pos == SelectSeq(first5, LAMBDA tw : tw[2] >= 0)
         IN [k \in 1..Len(pos) |-> pos[k][1]]
\* lines 36-44: the tokens present in the input (columns idx of X), sorted by
\* weight, the first five, those of positive weight; [] when the block raises
top_tokens_of(fts, weights, idx, eo) ==
    IF eo # "ok" THEN <<>>
    ELSE LET toks == sortByWeight([k \in 1..Len(idx) |-> <<fts[idx[k]], weights[idx[k]]>>])
             first5 == SubSeq(toks, 1, IF Len(toks) < 5 THEN Len(toks) ELSE 5)
             pos == SelectSeq(first5, LAMBDA tw : tw[2] > 0)
         IN [k \in 1..Len(pos) |-> pos[k][1]]

\* lines 32-46: the score and the explanation of one transformed input
score_and_explain(permille, fts, weights, idx, eo) ==
    [risk_score |-> PyInt(risk_score_of(permille)),
     top_tokens |-> top_tokens_of(fts, weights, idx, eo)]

\* predict_email_risk under the lru_cache of _load: `cache` says whether the
\* pair is already cached.  A failed load is not cached and is retried by the
\* next call.
predict_email_risk(m, cache, sc) ==
    LET load_ok == cache \/ sc # "load_fails"
    IN [raised |-> ~load_ok \/ sc = "predict_raises",
        cached |-> load_ok,
        load_calls |-> IF cache THEN 0 ELSE 1,
        ml |-> IF load_ok /\ sc # "predict_raises"
               THEN score_and_explain(Artifact[m].permille, feats, coef_, Artifact[m].idx,
                                      IF sc = "explain_raises" THEN "raises" ELSE "ok")
               ELSE None]

\* ------------------------------------------------------------------ ledger
HEADER == << <<"S","a","v","e","d","A","t">>, <<"F","r","o","m">>, <<"S","u","b","j","e","c","t">>,
             <<"D","a","t","e">>, <<"H","a","s","P","D","F">>,
             <<"A","t","t","a","c","h","m","e","n","t","N","a","m","e","s">>,
             <<"R","e","a","s","o","n">>, <<"M","e","s","s","a","g","e","I","D">>,
             <<"F","r","o","m","D","o","m","a","i","n">>, <<"R","e","p","l","y","D","o","m","a","i","n">>,
             <<"A","t","t","a","c","h","m","e","n","t","T","y","p","e","s">>,
             <<"A","m","o","u","n","t","G","u","e","s","s">>,
             <<"M","L"," ","R","i","s","k"," ","S","c","o","r","e">>,
             <<"M","L"," ","T","o","p"," ","T","o","k","e","n","s">> >>

\* What the storage decides for one append_invoice_row call: everything
\* works, opening raises (load_workbook of the existing file, or the first
\* save of a new one), or the save after the append raises.
WriteOutcomes == {"ok", "open_raises", "save_raises"}

\* ensure_workbook that writes the header on every call, also into a workbook
\* it has just loaded
ensure_workbook_header_always(file, wr) ==
    IF file.exists
    THEN [file |-> file, wb |-> Append(file.rows, HEADER), raised |-> wr = "open_raises",
          created |-> FALSE]
    ELSE IF wr = "open_raises"
         THEN [file |-> file, wb |-> <<>>, raised |-> TRUE, created |-> FALSE]
         ELSE [file |-> [exists |-> TRUE, rows |-> <<HEADER>>], wb |-> <<HEADER>>,
               raised |-> FALSE, created |-> TRUE]

\* The workbook file is [exists, rows].  ensure_workbook returns the file as it
\* is on disk afterwards, the rows of the workbook object it hands back, and
\* whether it raised.
ensure_workbook(file, wr) ==
    IF file.exists
    THEN [file |-> file, wb |-> file.rows, raised |-> wr = "open_raises", created |-> FALSE]
    ELSE IF wr = "open_raises"
         THEN [file |-> file, wb |-> <<>>, raised |-> TRUE, created |-> FALSE]
         ELSE [file |-> [exists |-> TRUE, rows |-> <<HEADER>>], wb |-> <<HEADER>>,
               raised |-> FALSE, created |-> TRUE]

\* datetime.now().strftime(...): the clock reading as text
strftime(now) == <<Digits[now + 1]>>

\* append_invoice_row as an upsert: a message that already has a row (same
\* Subject and MessageID) gets that row rewritten instead of a new one
append_invoice_row_upsert(file, now, f, wr) ==
    LET ew == ensure_workbook(file, wr)
        row == << strftime(now), f.from_, f.subject, f.date_str, f.has_pdf,
                  join(<<",", " ">>, f.attach_names), f.reason, f.message_id,
                  f.from_domain, f.reply_domain, f.attachment_types, f.amount_guess,
                  f.ml_risk_score, f.ml_top_tokens >>
        same == {k \in 2..Len(ew.wb) : ew.wb[k][3] = f.subject /\ ew.wb[k][8] = f.message_id}
    IN IF ew.raised \/ wr = "save_raises"
       THEN [file |-> ew.file, raised |-> TRUE, created |-> ew.created]
       ELSE [file |-> [exists |-> TRUE,
                       rows |-> IF same = {} THEN Append(ew.wb, row)
                                ELSE [k \in 1..Len(ew.wb) |-> IF k \in same THEN row ELSE ew.wb[k]]],
             raised |-> FALSE, created |-> ew.created]

\* append_invoice_row that keeps the appended row in the workbook object and
\* does not save it
append_invoice_row_unsaved(file, now, f, wr) ==
    LET ew == ensure_workbook(file, wr)
    IN [file |-> ew.file, raised |-> ew.raised \/ wr = "save_raises", created |-> ew.created]

append_invoice_row(file, now, f, wr) ==
    LET ew == ensure_workbook(file, wr)
        row == << strftime(now), f.from_, f.subject, f.date_str, f.has_pdf,
                  join(<<",", " ">>, f.attach_names), f.reason, f.message_id,
                  f.from_domain, f.reply_domain, f.attachment_types, f.amount_guess,
                  f.ml_risk_score, f.ml_top_tokens >>
    IN IF ew.raised \/ wr = "save_raises"
       THEN [file |-> ew.file, raised |-> TRUE, created |-> ew.created]
       ELSE [file |-> [exists |-> TRUE, rows |-> Append(ew.wb, row)],
             raised |-> FALSE, created |-> ew.created]

\* ---------------------------------------------------------------- keepalive
KEEPALIVE_EVERY == 50
ProbeOutcomes == {"ok", "abort", "error"}
\* maybe_keepalive: whether a NOOP is sent on step idx, and whether it raises
\* (only imaplib.IMAP4.abort is caught)
maybe_keepalive(idx, every, probe) ==
    [sent |-> idx % every = 0, raised |-> idx % every = 0 /\ probe = "error"]

\* ------------------------------------------------------------- process_all
HARD_CAP == 200
Min(a, b) == IF a < b THEN a ELSE b
Max(a, b) == IF a < b THEN b ELSE a
\* seq[-m:]
lastSlice(seq, m) ==
    LET n == Len(seq)
        start == IF m > 0 THEN Max(n - m, 0) ELSE Min(0 - m, n)
    IN SubSeq(seq, start + 1, n)
\* cut without the hard cap
cut_uncapped(ids, lim) == lastSlice(ids, lim)
cut(ids, lim) == lastSlice(ids, Min(lim, HARD_CAP))
Reverse(seq) == [k \in 1..Len(seq) |-> seq[Len(seq) + 1 - k]]

\* What the mail source answers to FETCH of a message: the call raises, the
\* status is not OK, the status is OK without a payload (the message is gone),
\* or the payload arrives, parseable by the email package or not.
FetchOutcomes == {"raise", "NO", "OK_empty", "OK_unparseable", "OK"}
fetch(msg, fo) ==
    [raised |-> fo = "raise",
     status |-> IF fo = "NO" THEN "NO" ELSE "OK",
     msg_data |-> IF fo \in {"OK", "OK_unparseable"}
                  THEN << <<"hdr", [msg |-> msg, parseable |-> fo = "OK"]>> >>
                  ELSE <<None>>]

\* lines 192-204: the message decoded into the loop's local variables
decodeMsg(msg) ==
    LET subject == decode_mime_header(msg.Subject)
        body == extract_text_body(msg)
        attachments == list_attachments(msg)
        gate == looks_like_invoice(subject, body, attachments)
    IN [msg |-> msg,
        subject |-> subject,
        from_ |-> decode_mime_header(msg.From),
        date_h |-> decode_mime_header(msg.Date),
        body |-> body,
        is_inv |-> gate.is_invoice,
        reason |-> gate.reason,
        has_pdf |-> \E k \in 1..Len(attachments) : attachments[k].is_pdf,
        attach_names |-> [k \in 1..Len(attachments) |-> attachments[k].fname],
        message_id |-> decode_mime_header(msg.MessageID)]

\* lines 210-213: the scoring inputs of an accepted message
mlInputs(d) ==
    [from_domain |-> domain_from_header(d.from_),
     reply_domain |-> domain_from_header(decode_mime_header(d.msg.ReplyTo)),
     attachment_types |-> attachment_types_from_list(d.attach_names),
     amount_value |-> extract_amount_guess(d.subject \o <<"\n">> \o d.body)]

\* both, tabulated once for the messages of the model
Decoded == [m \in Messages |-> decodeMsg(Message[m])]
Inputs == [m \in Messages |-> mlInputs(Decoded[m])]

\* line 191 and on: the payload is taken out of the fetch response and decoded;
\* nothing here is guarded, so a missing payload or a parse error raises
decode(msg_data) ==
    IF IsNone(msg_data[1]) \/ ~msg_data[1][2].parseable
    THEN [raised |-> TRUE]
    ELSE [raised |-> FALSE, m |-> msg_data[1][2].msg, d |-> Decoded[msg_data[1][2].msg]]

\* rowFields with the risk fields defaulting to a zero score and a dash
rowFields_default0(m, p) ==
    LET d == Decoded[m]
        x == Inputs[m]
    IN [from_ |-> d.from_, subject |-> d.subject, date_str |-> d.date_h,
        has_pdf |-> d.has_pdf, attach_names |-> d.attach_names, reason |-> d.reason,
        message_id |-> d.message_id, from_domain |-> x.from_domain,
        reply_domain |-> x.reply_domain, attachment_types |-> x.attachment_types,
        amount_guess |-> IF IsNone(x.amount_value) THEN <<>> ELSE x.amount_value,
        ml_risk_score |-> IF p.raised THEN PyInt(0) ELSE p.ml.risk_score,
        ml_top_tokens |-> IF p.raised THEN <<"-">> ELSE join(<<",", " ">>, p.ml.top_tokens)]

\* lines 215-245: the keyword arguments of append_invoice_row
rowFields(m, p) ==
    LET d == Decoded[m]
        x == Inputs[m]
    IN [from_ |-> d.from_, subject |-> d.subject, date_str |-> d.date_h,
        has_pdf |-> d.has_pdf, attach_names |-> d.attach_names, reason |-> d.reason,
        message_id |-> d.message_id, from_domain |-> x.from_domain,
        reply_domain |-> x.reply_domain, attachment_types |-> x.attachment_types,
        amount_guess |-> IF IsNone(x.amount_value) THEN <<>> ELSE x.amount_value,
        ml_risk_score |-> IF p.raised THEN <<>> ELSE p.ml.risk_score,
        ml_top_tokens |-> IF p.raised THEN <<>> ELSE join(<<",", " ">>, p.ml.top_tokens)]

\* ------------------------------------------------------------------- state
VARIABLES
    mailbox,       \* the messages of the mailbox; the listing is 1..Len(mailbox)
    file,          \* invoices.xlsx: [exists, rows]
    phase,         \* "idle", "connected", "iterating", "closed", "failed"
    limit,         \* the argument of this run's process_all
    msg_ids,       \* the cut listing
    i,             \* enumerate index of the last step started
    count,         \* process_all's counter of saved invoices
    run,           \* number of this run (also the clock reading of its rows)
    verbs,         \* the commands sent to the mail source in this run
    cached,        \* lru_cache of _load holds the artifact pair
    loads,         \* calls of joblib load for the pair in this process
    hist,          \* per step of this run: what happened to its message
    rowSrc,        \* for every row of the file: <<run, msg_id>> that wrote it
    headerWrites,  \* how often the header row was written
    failure,       \* what made the run fail or end early, "none" otherwise
    pure,          \* the pure-function specifications: input and result
    callers        \* the load specification: the threads calling _load

\* the variables of process_all, and those of the other specifications
mainVars == <<mailbox, file, phase, limit, msg_ids, i, count, run, verbs, cached, loads,
              hist, rowSrc, headerWrites, failure>>
auxVars == <<pure, callers>>
vars == <<mainVars, auxVars>>


\* the limits tried: a negative one, zero, small ones and one above the cap
Limits == {0 - 1, 0, 1, 2, HARD_CAP + 1}
\* a mailbox holds each message at most once
Mailboxes == {mb \in UNION {[1..n -> Messages] : n \in 0..MaxMsgs} :
                \A j, k \in DOMAIN mb : j # k => mb[j] # mb[k]}

Init ==
    /\ mailbox \in Mailboxes
    /\ file = [exists |-> FALSE, rows |-> <<>>]
    /\ phase = "idle"
    /\ limit \in Limits
    /\ msg_ids = <<>>
    /\ i = 0
    /\ count = 0
    /\ run = 1
    /\ verbs = <<>>
    /\ cached = FALSE
    /\ loads = 0
    /\ hist = <<>>
    /\ rowSrc = <<>>
    /\ headerWrites = 0
    /\ failure = "none"
    /\ pure = <<>>
    /\ callers = <<>>

\* What the LOGOUT command runs into: it succeeds, the socket raises OSError,
\* or imaplib raises IMAP4.abort (how it reports a lost connection).
LogoutOutcomes == {"ok", "oserror", "abort"}
\* lines 252-256: try: imap.logout() except Exception: pass
safe_logout(lo) == [raised |-> FALSE]
\* leaving the with block with the session still open (the early return of
\* line 175): IMAP4.__exit__ calls logout() and catches OSError only
exit_logout(lo) == [raised |-> lo = "abort"]

\* leaving the with block on an exception: IMAP4.__exit__ logs out
Fail(why, sent) ==
    /\ phase' = "failed"
    /\ failure' = why
    /\ verbs' = verbs \o sent \o <<<<"logout">>>>

\* Connect that logs in a second time after a refused login and carries on
Connect_retries ==
    /\ phase = "idle"
    /\ \E conn \in {"ok", "raise"}, login \in {"ok", "raise"}, sel \in {"OK", "NO", "raise"} :
         IF conn = "raise"
         THEN phase' = "failed" /\ failure' = "connect" /\ verbs' = verbs
         ELSE IF login = "raise"
              THEN /\ phase' = "connected"
                   /\ failure' = "login"
                   /\ verbs' = verbs \o <<<<"login">>, <<"login">>, <<"select_readonly">>>>
         ELSE IF sel = "raise" THEN Fail("select", <<<<"login">>, <<"select_readonly">>>>)
         ELSE IF sel = "NO"
              THEN Fail("search_unselected", <<<<"login">>, <<"select_readonly">>>>)
         ELSE /\ phase' = "connected"
              /\ verbs' = verbs \o <<<<"login">>, <<"select_readonly">>>>
              /\ failure' = failure
    /\ UNCHANGED <<mailbox, file, limit, msg_ids, i, count, run, cached, loads, hist,
                   rowSrc, headerWrites>>
    /\ UNCHANGED auxVars
\* lines 167-169: IMAP4_SSL(...), login, select(readonly=True)
Connect ==
    /\ phase = "idle"
    /\ \E conn \in {"ok", "raise"}, login \in {"ok", "raise"}, sel \in {"OK", "NO", "raise"} :
         IF conn = "raise"
         THEN phase' = "failed" /\ failure' = "connect" /\ verbs' = verbs
         ELSE IF login = "raise" THEN Fail("login", <<<<"login">>>>)
         ELSE IF sel = "raise" THEN Fail("select", <<<<"login">>, <<"select_readonly">>>>)
         ELSE IF sel = "NO"
              \* the status of select is not looked at; search is then refused
              \* by imaplib because no mailbox is selected
              THEN Fail("search_unselected", <<<<"login">>, <<"select_readonly">>>>)
         ELSE /\ phase' = "connected"
              /\ verbs' = verbs \o <<<<"login">>, <<"select_readonly">>>>
              /\ failure' = failure
    /\ UNCHANGED <<mailbox, file, limit, msg_ids, i, count, run, cached, loads, hist,
                   rowSrc, headerWrites>>
    /\ UNCHANGED auxVars

\* lines 171-182: search, the cut of the listing, count = 0
Search ==
    /\ phase = "connected"
    /\ \E so \in {"OK", "NO", "raise"} :
         IF so = "raise" THEN Fail("search", <<<<"search">>>>) /\ msg_ids' = msg_ids
         ELSE IF so = "NO"
              THEN \E lo \in LogoutOutcomes :
                   /\ phase' = IF exit_logout(lo).raised THEN "failed" ELSE "closed"
                   /\ verbs' = verbs \o <<<<"search">>, <<"logout">>>>
                   /\ failure' = IF exit_logout(lo).raised THEN "logout" ELSE "search_status"
                   /\ msg_ids' = msg_ids
         ELSE /\ phase' = "iterating"
              /\ msg_ids' = cut([k \in 1..Len(mailbox) |-> k], limit)
              /\ verbs' = Append(verbs, <<"search">>)
              /\ failure' = failure
    /\ UNCHANGED <<mailbox, file, limit, i, count, run, cached, loads, hist, rowSrc,
                   headerWrites>>
    /\ UNCHANGED auxVars

\* fetch_order without reversed(): oldest first
fetch_order_oldest_first(ids) == ids
fetch_order(ids) == Reverse(ids)

\* Iteration whose except branch of the scoring call leaves ml_score and
\* ml_tokens as the previous saved step of the run set them
Iteration_stale(idx, probe, fo, sc, wr) ==
    LET msg_id == fetch_order(msg_ids)[idx]
        ka == maybe_keepalive(idx, KEEPALIVE_EVERY, probe)
        sentK == IF ka.sent THEN <<<<"noop">>>> ELSE <<>>
        r == fetch(mailbox[msg_id], fo)
        d == decode(r.msg_data)
        p == predict_email_risk(d.m, cached, sc)
        stale == p.raised /\ count > 0
        last == file.rows[Len(file.rows)]
        fields == IF stale
                  THEN [rowFields(d.m, p) EXCEPT !.ml_risk_score = last[13],
                                                 !.ml_top_tokens = last[14]]
                  ELSE rowFields(d.m, p)
        w == append_invoice_row(file, run, fields, wr)
        base == [id |-> msg_id, sent |-> sentK, fetch |-> "none", accepted |-> FALSE,
                 scored |-> FALSE, score_failed |-> FALSE, write |-> "none",
                 result |-> "raised", failure |-> "none", file |-> file, created |-> FALSE,
                 cached |-> cached, load_calls |-> 0, count |-> count]
        fetched == [base EXCEPT !.sent = sentK \o <<<<"fetch", msg_id>>>>, !.fetch = fo]
    IN IF ka.raised THEN [base EXCEPT !.failure = "probe"]
       ELSE IF r.raised THEN [fetched EXCEPT !.failure = "fetch"]
       ELSE IF r.status # "OK" THEN [fetched EXCEPT !.result = "skipped"]
       ELSE IF d.raised THEN [fetched EXCEPT !.failure = "decode"]
       ELSE IF ~d.d.is_inv THEN [fetched EXCEPT !.result = "rejected"]
       ELSE LET scoredRec == [fetched EXCEPT !.accepted = TRUE, !.scored = TRUE,
                                             !.score_failed = p.raised, !.write = wr,
                                             !.cached = p.cached,
                                             !.load_calls = p.load_calls,
                                             !.file = w.file, !.created = w.created]
            IN IF w.raised THEN [scoredRec EXCEPT !.failure = "persist"]
               ELSE [scoredRec EXCEPT !.result = "saved", !.count = count + 1]

\* lines 183-250: one pass of the loop body for step idx
Iteration(idx, probe, fo, sc, wr) ==
    LET msg_id == fetch_order(msg_ids)[idx]
        ka == maybe_keepalive(idx, KEEPALIVE_EVERY, probe)
        sentK == IF ka.sent THEN <<<<"noop">>>> ELSE <<>>
        r == fetch(mailbox[msg_id], fo)
        d == decode(r.msg_data)
        p == predict_email_risk(d.m, cached, sc)
        w == append_invoice_row(file, run, rowFields(d.m, p), wr)
        base == [id |-> msg_id, sent |-> sentK, fetch |-> "none", accepted |-> FALSE,
                 scored |-> FALSE, score_failed |-> FALSE, write |-> "none",
                 result |-> "raised", failure |-> "none", file |-> file, created |-> FALSE,
                 cached |-> cached, load_calls |-> 0, count |-> count]
        fetched == [base EXCEPT !.sent = sentK \o <<<<"fetch", msg_id>>>>, !.fetch = fo]
    IN IF ka.raised THEN [base EXCEPT !.failure = "probe"]
       ELSE IF r.raised THEN [fetched EXCEPT !.failure = "fetch"]
       ELSE IF r.status # "OK" THEN [fetched EXCEPT !.result = "skipped"]
       ELSE IF d.raised THEN [fetched EXCEPT !.failure = "decode"]
       ELSE IF ~d.d.is_inv THEN [fetched EXCEPT !.result = "rejected"]
       ELSE LET scoredRec == [fetched EXCEPT !.accepted = TRUE, !.scored = TRUE,
                                             !.score_failed = p.raised, !.write = wr,
                                             !.cached = p.cached,
                                             !.load_calls = p.load_calls,
                                             !.file = w.file, !.created = w.created]
            IN IF w.raised THEN [scoredRec EXCEPT !.failure = "persist"]
               ELSE [scoredRec EXCEPT !.result = "saved", !.count = count + 1]

\* the choices of the environment that step idx can run into
ProbesAt(idx) == IF idx % KEEPALIVE_EVERY = 0 THEN ProbeOutcomes ELSE {"ok"}
reachesGate(idx, fo) == fo = "OK" /\ Decoded[mailbox[fetch_order(msg_ids)[idx]]].is_inv
ScoresAt(idx, fo) ==
    IF reachesGate(idx, fo)
    THEN (IF cached THEN ScoreOutcomes \ {"load_fails"} ELSE ScoreOutcomes)
    ELSE {"ok"}
WritesAt(idx, fo) == IF reachesGate(idx, fo) THEN WriteOutcomes ELSE {"ok"}

StepWith(fetches) ==
    /\ phase = "iterating"
    /\ i < Len(msg_ids)
    /\ \E probe \in ProbesAt(i + 1), fo \in fetches :
       \E sc \in ScoresAt(i + 1, fo), wr \in WritesAt(i + 1, fo) :
         \E o \in {Iteration(i + 1, probe, fo, sc, wr)} :
            /\ i' = i + 1
            /\ hist' = Append(hist, [id |-> o.id, fetch |-> o.fetch, accepted |-> o.accepted,
                                     scored |-> o.scored, score_failed |-> o.score_failed,
                                     write |-> o.write,
                                     result |-> o.result])
            /\ file' = o.file
            /\ rowSrc' = rowSrc \o (IF o.created THEN << <<0, 0>> >> ELSE <<>>)
                                \o (IF o.result = "saved" THEN << <<run, o.id>> >> ELSE <<>>)
            /\ headerWrites' = headerWrites + (IF o.created THEN 1 ELSE 0)
            /\ cached' = o.cached
            /\ loads' = loads + o.load_calls
            /\ count' = o.count
            /\ IF o.result = "raised"
               THEN Fail(o.failure, o.sent)
               ELSE /\ verbs' = verbs \o o.sent
                    /\ UNCHANGED <<phase, failure>>
    /\ UNCHANGED <<mailbox, limit, msg_ids, run>>
    /\ UNCHANGED auxVars

Step == StepWith(FetchOutcomes)

\* lines 252-259: the batch is exhausted; logout, any exception swallowed
Close ==
    /\ phase = "iterating"
    /\ i = Len(msg_ids)
    /\ \E lo \in LogoutOutcomes :
         /\ phase' = IF safe_logout(lo).raised THEN "failed" ELSE "closed"
         /\ failure' = IF safe_logout(lo).raised THEN "logout" ELSE failure
    /\ verbs' = Append(verbs, <<"logout">>)
    /\ UNCHANGED <<mailbox, file, limit, msg_ids, i, count, run, cached, loads, hist,
                   rowSrc, headerWrites>>
    /\ UNCHANGED auxVars

\* lines 261-263: the script is started again, in a new process
NewRun ==
    /\ phase \in {"closed", "failed"}
    /\ run < MaxRuns
    /\ run' = run + 1
    /\ phase' = "idle"
    /\ msg_ids' = <<>>
    /\ i' = 0
    /\ count' = 0
    /\ verbs' = <<>>
    /\ cached' = FALSE
    /\ loads' = 0
    /\ hist' = <<>>
    /\ failure' = "none"
    /\ UNCHANGED <<mailbox, limit, file, rowSrc, headerWrites>>
    /\ UNCHANGED auxVars

Next == Connect \/ Search \/ Step \/ Close \/ NewRun

Spec == Init /\ [][Next]_vars

TypeOK ==
    /\ phase \in {"idle", "connected", "iterating", "closed", "failed"}
    /\ i \in 0..Len(msg_ids)
    /\ count \in 0..i
    /\ file.exists \in BOOLEAN
    /\ Len(rowSrc) = Len(file.rows)

\* the loop runs on by itself once the session is open
FairSpec == Spec /\ WF_vars(Search) /\ WF_vars(Step) /\ WF_vars(Close)

\* ----------------------------------------------------------- large mailboxes
MaxOver == 1        \* messages, and limit, above the hard cap

\* One run over a mailbox of messages B (not invoices) whose size and limit
\* lie around the keep-alive period and the hard cap; a fetch answers OK or
\* raises.
BulkSizes == {0, 1, KEEPALIVE_EVERY, HARD_CAP} \cup {HARD_CAP + k : k \in 1..MaxOver}
BulkLimits == {0, 1, KEEPALIVE_EVERY, HARD_CAP} \cup {HARD_CAP + k : k \in 1..MaxOver}

InitBulk ==
    /\ \E n \in BulkSizes : mailbox = [k \in 1..n |-> "B"]
    /\ limit \in BulkLimits
    /\ file = [exists |-> FALSE, rows |-> <<>>]
    /\ phase = "idle"
    /\ msg_ids = <<>>
    /\ i = 0
    /\ count = 0
    /\ run = 1
    /\ verbs = <<>>
    /\ cached = FALSE
    /\ loads = 0
    /\ hist = <<>>
    /\ rowSrc = <<>>
    /\ headerWrites = 0
    /\ failure = "none"
    /\ pure = <<>>
    /\ callers = <<>>

StepBulk == StepWith({"OK", "raise"})
NextBulk == Connect \/ Search \/ StepBulk \/ Close
SpecBulk == InitBulk /\ [][NextBulk]_vars

\* ------------------------------------------- _load under concurrent callers
MaxCallers == 2     \* threads calling predict_email_risk
MaxCalls == 2       \* calls per thread

\* process_all at rest, for the specifications that do not run it
MainIdle ==
    /\ mailbox = <<>>
    /\ file = [exists |-> FALSE, rows |-> <<>>]
    /\ phase = "idle"
    /\ limit = 0
    /\ msg_ids = <<>>
    /\ i = 0
    /\ count = 0
    /\ run = 1
    /\ verbs = <<>>
    /\ hist = <<>>
    /\ rowSrc = <<>>
    /\ headerWrites = 0
    /\ failure = "none"
mainRest == <<mailbox, file, phase, limit, msg_ids, i, count, run, verbs, hist, rowSrc,
              headerWrites, failure>>

\* functools.lru_cache around _load: a call looks the key up; on a miss it
\* calls _load without holding any lock and stores the result afterwards.
\* A thread is [pc, calls, loaded]: where it is, how many calls it has
\* started, how many loads of the pair it has completed.
InitLoad ==
    /\ MainIdle
    /\ cached = FALSE
    /\ loads = 0
    /\ pure = <<>>
    /\ callers = [t \in 1..MaxCallers |-> [pc |-> "idle", calls |-> 0, loaded |-> 0]]

\* predict_email_risk line 30: the cache lookup of a call
Lookup(t) ==
    /\ callers[t].pc = "idle"
    /\ callers[t].calls < MaxCalls
    /\ callers' = [callers EXCEPT ![t].calls = @ + 1,
                                  ![t].pc = IF cached THEN "scoring" ELSE "loading"]
    /\ loads' = loads + (IF cached THEN 0 ELSE 1)
    /\ UNCHANGED <<cached, pure, mainRest>>

\* _load line 8 returns (the pair is cached) or raises (nothing is cached)
LoadReturns(t) ==
    /\ callers[t].pc = "loading"
    /\ \E ok \in BOOLEAN :
         /\ callers' = [callers EXCEPT ![t].pc = IF ok THEN "scoring" ELSE "idle",
                                       ![t].loaded = @ + (IF ok THEN 1 ELSE 0)]
         /\ cached' = (cached \/ ok)
    /\ UNCHANGED <<loads, pure, mainRest>>

\* predict_email_risk lines 31-46: the rest of the call
Scored(t) ==
    /\ callers[t].pc = "scoring"
    /\ callers' = [callers EXCEPT ![t].pc = "idle"]
    /\ UNCHANGED <<cached, loads, pure, mainRest>>

NextLoad == \E t \in 1..MaxCallers : Lookup(t) \/ LoadReturns(t) \/ Scored(t)
SpecLoad == InitLoad /\ [][NextLoad]_vars

\* ------------------------------------------------ the two feature encoders
\* The rows the encoders are applied to.
Subjects == {None, <<"I", "n", "v", " ", " ", "7">>}
Bodies == {<<>>, <<"\t", "p", "a", "y", "\n">>}
FromDomains == {None, <<"a", ".", "i", "o">>, <<"A", ".", "i", "o">>}
ReplyDomains == {<<>>, <<"B", ".", "i", "o">>}
AttachmentTypes == {<<>>, <<"p", "d", "f">>, <<"P", "D", "F">>}
Amounts == {None, NaN, PyFloat(0 - 500), PyFloat(0), PyFloat(9999), PyFloat(10000),
            PyFloat(99999), PyFloat(100000),
            <<"2", "5", "0", ".", "0", "0">>, <<"-", "5">>, <<"n", "/", "a">>}
Rows == [subject : Subjects, body : Bodies, from_domain : FromDomains,
         reply_domain : ReplyDomains, attachment_types : AttachmentTypes, amount : Amounts]

InitCodec ==
    /\ MainIdle
    /\ cached = FALSE
    /\ loads = 0
    /\ callers = <<>>
    /\ \E row \in Rows : pure = [stage |-> "row", row |-> row]

\* the row is encoded at training time (train_model.py line 39) and at
\* scoring time (ai_fraud_ml.py line 31)
Encode ==
    /\ pure.stage = "row"
    /\ pure' = [stage |-> "encoded", row |-> pure.row,
                training |-> combine(pure.row),
                runtime |-> _combine(pure.row.subject, pure.row.body, pure.row.from_domain,
                                     pure.row.reply_domain, pure.row.attachment_types,
                                     pure.row.amount),
                training_token |-> amt_token(pure.row.amount),
                runtime_token |-> _amt_token(pure.row.amount)]
    /\ UNCHANGED <<callers, mainVars>>

NextCodec == Encode
SpecCodec == InitCodec /\ [][NextCodec]_vars

\* ------------------------------------------------------- the explanation
MaxPresent == 6     \* tokens of the vocabulary present in the input
Weights == {0 - 1, 0, 1, 2}
Probas == {31, 874}

\* The vocabulary is 1..n+1 (a token is named by its column); the columns
\* 1..n are present in the input, the column n+1 is not.
InitExplain ==
    /\ MainIdle
    /\ cached = FALSE
    /\ loads = 0
    /\ callers = <<>>
    /\ \E n \in 0..MaxPresent, eo \in ExplainOutcomes, permille \in Probas :
       \E weights \in [1..(n + 1) -> Weights] :
          pure = [stage |-> "transformed", n |-> n, weights |-> weights, eo |-> eo,
                  permille |-> permille]

Explain ==
    /\ pure.stage = "transformed"
    /\ pure' = [pure EXCEPT !.stage = "returned"]
                 @@ [out |-> score_and_explain(pure.permille, [k \in 1..(pure.n + 1) |-> k],
                                               pure.weights, [k \in 1..pure.n |-> k], pure.eo)]
    /\ UNCHANGED <<callers, mainVars>>

NextExplain == Explain
SpecExplain == InitExplain /\ [][NextExplain]_vars

\* ==================================================================== claims
\* helpers of the claims
fetchedSeq == LET idxs == {k \in 1..Len(verbs) : verbs[k][1] = "fetch"}
                  RECURSIVE take(_, _)
                  take(k, acc) == IF k > Len(verbs) THEN acc
                                  ELSE take(k + 1, IF k \in idxs THEN Append(acc, verbs[k][2]) ELSE acc)
              IN take(1, <<>>)
fetchedIds == {verbs[k][2] : k \in {j \in 1..Len(verbs) : verbs[j][1] = "fetch"}}
rowsOf(r, id) == {k \in 1..Len(rowSrc) : rowSrc[k] = <<r, id>>}
rowsOfRun(r) == {k \in 1..Len(rowSrc) : rowSrc[k][1] = r}
IsPrefix(a, b) == Len(a) <= Len(b) /\ \A k \in 1..Len(a) : a[k] = b[k]
fetchFailed(h) == h.fetch \in {"NO", "raise"}
undecodable(h) == h.fetch \in {"OK_empty", "OK_unparseable"}

\* C1: a message whose fetch fails in any way (status not OK, or the call
\* raises) is skipped without a ledger row and the run does not fail on it.
C1_FetchFailureIsSkipped ==
    \A k \in 1..Len(hist) :
        fetchFailed(hist[k]) =>
            /\ hist[k].result = "skipped"
            /\ rowsOf(run, hist[k].id) = {}
            /\ failure # "fetch"

\* C2: a fetched message that cannot be decoded is skipped without a ledger
\* row and the run does not fail on it.
C2_DecodeFailureIsSkipped ==
    \A k \in 1..Len(hist) :
        undecodable(hist[k]) =>
            /\ hist[k].result = "skipped"
            /\ rowsOf(run, hist[k].id) = {}
            /\ failure # "decode"

\* C3: when scoring fails for an accepted message (and the workbook write
\* itself works), the step ends normally with exactly one row for the message,
\* whose two risk cells are empty and whose other cells are those the message
\* gets when scoring succeeds.
C3_ScoringFailureStillWritesRow ==
    \A k \in 1..Len(hist) :
        (hist[k].score_failed /\ hist[k].write = "ok") =>
            /\ hist[k].result = "saved"
            /\ Cardinality(rowsOf(run, hist[k].id)) = 1
            /\ \A r \in rowsOf(run, hist[k].id) :
                 LET m == mailbox[hist[k].id]
                     row == file.rows[r]
                 IN /\ Len(row) = 14
                    /\ row[13] = <<>> /\ row[14] = <<>>
                    /\ row[2] = Message[m].From /\ row[3] = Message[m].Subject
                    /\ row[4] = Message[m].Date /\ row[5] \in BOOLEAN
                    /\ row[7] = <<"k","e","y","w","o","r","d">>
                    /\ row[1] # <<>> /\ row[9] # <<>> /\ row[12] # <<>>
C3_Witness ==
    \E k \in 1..Len(hist) :
        /\ hist[k].score_failed /\ hist[k].result = "saved"
        /\ Len(hist) > k /\ hist[k + 1].result = "saved"

\* C4: a workbook write that raises loses that row only; the run does not
\* fail on it.
C4_WriteFailureDoesNotAbort ==
    \A k \in 1..Len(hist) :
        hist[k].write \in {"open_raises", "save_raises"} =>
            hist[k].result # "raised" /\ failure # "persist"

\* C5: for a limit >= 0 the messages fetched are at most `limit` many and are
\* among the last `limit` identifiers of the listing.
C5_AtMostLimitMostRecent ==
    limit >= 0 =>
        /\ Cardinality(fetchedIds) <= limit
        /\ \A id \in fetchedIds : id > Len(mailbox) - limit

\* C6: the k-th fetch of a run is the k-th identifier from the end of the cut
\* listing, and the rows of the run lie in the file in the order in which their
\* messages were fetched.
C6_FetchAndRowOrder ==
    /\ \A k \in 1..Len(fetchedSeq) : fetchedSeq[k] = msg_ids[Len(msg_ids) + 1 - k]
    /\ \A a, b \in rowsOfRun(run) :
         a < b => \E ka, kb \in 1..Len(fetchedSeq) :
                     /\ ka < kb
                     /\ fetchedSeq[ka] = rowSrc[a][2]
                     /\ fetchedSeq[kb] = rowSrc[b][2]
C6_Witness ==
    /\ Len(fetchedSeq) >= 2
    /\ Cardinality(rowsOfRun(run)) >= 2

\* C7: every step leaves the stored rows in place (the old file is a prefix of
\* the new one and the file never vanishes), and a step that saves a message
\* adds exactly one row at the end, also when the message already has a row
\* from an earlier run.
C7_AppendOnly ==
    [][ /\ IsPrefix(file.rows, file'.rows)
        /\ (file.exists => file'.exists)
        /\ (Len(hist') = Len(hist) + 1 /\ hist'[Len(hist')].result = "saved") =>
              /\ Len(file'.rows) = Len(file.rows) + (IF file.exists THEN 1 ELSE 2)
              /\ file'.rows[Len(file'.rows)][3] = Message[mailbox[hist'[Len(hist')].id]].Subject
      ]_vars
C7_Witness ==
    \E a, b \in 2..Len(file.rows) :
        /\ a < b
        /\ rowSrc[a][1] < rowSrc[b][1]
        /\ rowSrc[a][2] = rowSrc[b][2]
        /\ file.rows[a][3] = file.rows[b][3]

\* the gate as the claim words it: "invoice" occurs in subject+body, letter
\* case ignored
keywordInMessage(m) ==
    LET text == Message[m].Subject \o <<"\n">> \o extract_text_body(Message[m])
        word == <<"i","n","v","o","i","c","e">>
        WORD == <<"I","N","V","O","I","C","E">>
    IN \E p \in 0..(Len(text) - 7) :
         \A j \in 1..7 : text[p + j] = word[j] \/ text[p + j] = WORD[j]

\* C8: the counter equals the number of rows written in this run and the number
\* of messages that went through a whole step and have the keyword; a message
\* without the keyword is not scored, gets no row and leaves the counter alone.
C8_CounterMatchesRowsAndGate ==
    /\ count = Cardinality(rowsOfRun(run))
    /\ count = Cardinality({k \in 1..Len(hist) :
                              /\ hist[k].fetch = "OK" /\ hist[k].result # "raised"
                              /\ keywordInMessage(mailbox[hist[k].id])})
    /\ \A k \in 1..Len(hist) :
         (hist[k].fetch = "OK" /\ ~keywordInMessage(mailbox[hist[k].id])) =>
             /\ hist[k].result = "rejected"
             /\ ~hist[k].scored
             /\ rowsOf(run, hist[k].id) = {}
C8_Witness ==
    /\ count >= 1
    /\ \E k \in 1..Len(hist) : hist[k].result = "rejected"
    /\ \E k \in 1..Len(hist) : hist[k].result = "saved" /\ mailbox[hist[k].id] = "C"

\* C9: scenario A (message A) is accepted with reason "keyword", its amount
\* token is MED, and its row has HasPDF true, FromDomain acme.com,
\* AttachmentTypes pdf and AmountGuess 250.00.
C9_ScenarioA ==
    \A r \in 2..Len(file.rows) :
        mailbox[rowSrc[r][2]] = "A" =>
            /\ file.rows[r][7] = <<"k","e","y","w","o","r","d">>
            /\ file.rows[r][5] = TRUE
            /\ file.rows[r][9] = <<"a","c","m","e",".","c","o","m">>
            /\ file.rows[r][11] = <<"p","d","f">>
            /\ file.rows[r][12] = PyFloat(25000)
            /\ _amt_token(file.rows[r][12]) = AMOUNT_MED

\* the header of the claim, and the header with the two names the code writes
ClaimedHeader ==
    << <<"S","a","v","e","d","A","t">>, <<"F","r","o","m">>, <<"S","u","b","j","e","c","t">>,
       <<"D","a","t","e">>, <<"H","a","s","P","D","F">>,
       <<"A","t","t","a","c","h","m","e","n","t","N","a","m","e","s">>,
       <<"R","e","a","s","o","n">>, <<"M","e","s","s","a","g","e","I","D">>,
       <<"F","r","o","m","D","o","m","a","i","n">>, <<"R","e","p","l","y","D","o","m","a","i","n">>,
       <<"A","t","t","a","c","h","m","e","n","t","T","y","p","e","s">>,
       <<"A","m","o","u","n","t","G","u","e","s","s">>,
       <<"M","L","R","i","s","k","S","c","o","r","e">>,
       <<"M","L","T","o","p","T","o","k","e","n","s">> >>
WrittenHeader ==
    [ClaimedHeader EXCEPT ![13] = <<"M","L"," ","R","i","s","k"," ","S","c","o","r","e">>,
                          ![14] = <<"M","L"," ","T","o","p"," ","T","o","k","e","n","s">>]
headerOnceThenRows(hdr) ==
    /\ file.exists => /\ Len(file.rows) >= 1
                      /\ file.rows[1] = hdr
                      /\ headerWrites = 1
                      /\ \A r \in 2..Len(file.rows) :
                           Len(file.rows[r]) = Len(hdr) /\ file.rows[r] # hdr
    /\ ~file.exists => headerWrites = 0

durableRowsOfRun == {r \in 2..Len(file.rows) : file.rows[r][1] = strftime(run)}

\* C11: at every step boundary, and when the run has failed at a later
\* message, the file on disk holds a row for every message saved so far in
\* this run, and as many rows of this run as messages were saved.
C11_RowsDurableAfterEachAppend ==
    /\ \A k \in 1..Len(hist) :
         hist[k].result = "saved" =>
             /\ file.exists
             /\ \E r \in durableRowsOfRun :
                  file.rows[r][3] = Message[mailbox[hist[k].id]].Subject
    /\ Cardinality(durableRowsOfRun)
         = Cardinality({k \in 1..Len(hist) : hist[k].result = "saved"})
C11_Witness ==
    /\ phase = "failed"
    /\ failure \in {"fetch", "decode", "persist"}
    /\ Len(hist) = 2
    /\ hist[1].result = "saved"
    /\ durableRowsOfRun # {}

RECURSIVE sumLoaded(_)
sumLoaded(t) == IF t = 0 THEN 0 ELSE callers[t].loaded + sumLoaded(t - 1)

\* C12: no load before the first call, the pair is loaded successfully at most
\* once in the process, and callers arriving before the first load has
\* completed do not start a load of their own (never two callers inside _load).
C12_LoadedOnce ==
    /\ (\A t \in 1..MaxCallers : callers[t].calls = 0) => loads = 0
    /\ sumLoaded(MaxCallers) <= 1
    /\ Cardinality({t \in 1..MaxCallers : callers[t].pc = "loading"}) <= 1

ReadOnlyVerbs == {"login", "select_readonly", "search", "fetch", "noop", "logout"}
connectFailed == failure \in {"login", "select", "search_unselected"}

\* C13: when login or the read-only select fails the run is failed for good:
\* one login only, no fetch, no step, no row of this run in the ledger, and
\* the counter stays 0; and in every run every verb sent to the mail source
\* is one of login, read-only select, search, fetch, probe, logout.
C13_ConnectFailureIsFatal ==
    /\ connectFailed =>
         /\ phase = "failed"
         /\ Cardinality({k \in 1..Len(verbs) : verbs[k][1] = "login"}) = 1
         /\ fetchedIds = {}
         /\ hist = <<>>
         /\ rowsOfRun(run) = {}
         /\ count = 0
    /\ \A k \in 1..Len(verbs) : verbs[k][1] \in ReadOnlyVerbs
C13_Witness ==
    /\ connectFailed
    /\ run = 2
    /\ rowsOfRun(1) # {}

\* C14: for every tuple the training-time encoder and the runtime encoder
\* return the same text, and that text has no white space at either end and
\* no white space other than single spaces.
C14_EncodersIdentical ==
    pure.stage = "encoded" =>
        /\ pure.training = pure.runtime
        /\ \A t \in {pure.training, pure.runtime} :
             /\ strip(t) = t
             /\ \A k \in 1..Len(t) : t[k] \in Whitespace =>
                    t[k] = " " /\ (k < Len(t) => t[k + 1] \notin Whitespace)

numericAmount(v) == ~float_(v).raised /\ ~float_(v).nan

\* C15: the amount token is LOW exactly for 0 <= v < 100, MED exactly for
\* 100 <= v < 1000, HIGH exactly for v >= 1000 and UNK exactly for an amount
\* that is absent or not a number, in both encoders.
C15_QuantizationRule ==
    pure.stage = "encoded" =>
        \A tok \in {pure.training_token, pure.runtime_token} :
            LET v == pure.row.amount
                c == float_(v).c
            IN /\ tok \in {AMOUNT_LOW, AMOUNT_MED, AMOUNT_HIGH, AMOUNT_UNK}
               /\ tok = AMOUNT_LOW <=> (numericAmount(v) /\ 0 <= c /\ c < 100 * 100)
               /\ tok = AMOUNT_MED <=> (numericAmount(v) /\ 100 * 100 <= c /\ c < 1000 * 100)
               /\ tok = AMOUNT_HIGH <=> (numericAmount(v) /\ c >= 1000 * 100)
               /\ tok = AMOUNT_UNK <=> ~numericAmount(v)

\* C16: the returned top tokens are at most five, each present in the input
\* and of strictly positive weight, in descending order of weight, and they
\* are the five (or all, if fewer) present tokens of largest positive weight;
\* without weights or when the explanation raises the list is empty; the
\* risk score is returned in every case.
C16_TopTokens ==
    pure.stage = "returned" =>
        LET tt == pure.out.top_tokens
            w == pure.weights
            positive == {t \in 1..pure.n : w[t] > 0}
        IN /\ Len(tt) <= 5
           /\ \A k \in 1..Len(tt) : tt[k] \in positive
           /\ \A j, k \in 1..Len(tt) : j < k => tt[j] # tt[k] /\ w[tt[j]] >= w[tt[k]]
           /\ pure.eo = "ok" =>
                /\ Len(tt) = Min(5, Cardinality(positive))
                /\ \A t \in positive \ Range(tt) : \A k \in 1..Len(tt) : w[tt[k]] >= w[t]
           /\ pure.eo # "ok" => tt = <<>>
           /\ pure.out.risk_score = PyInt(risk_score_of(pure.permille))
C16_Witness ==
    /\ pure.stage = "returned"
    /\ pure.eo = "ok"
    /\ pure.n = MaxPresent
    /\ pure.weights = [t \in 1..(MaxPresent + 1) |->
                          IF t = 3 THEN 0 ELSE IF t > MaxPresent - 2 THEN 2 ELSE 1]
    /\ Len(pure.out.top_tokens) = 5

fetchCount == Cardinality({k \in 1..Len(verbs) : verbs[k][1] = "fetch"})

\* C17: a probe is sent exactly on the steps whose index is a multiple of 50,
\* directly before that step's fetch; whatever the probe runs into, the fetch
\* of the same step follows and the run does not fail because of the probe.
C17_ProbeEvery50Swallowed ==
    /\ failure # "probe"
    /\ \A k \in 1..Len(verbs) :
         /\ verbs[k][1] = "fetch" =>
              LET step == Cardinality({j \in 1..k : verbs[j][1] = "fetch"})
              IN (step % 50 = 0) <=> (k > 1 /\ verbs[k - 1][1] = "noop")
         /\ verbs[k][1] = "noop" => k < Len(verbs) /\ verbs[k + 1][1] = "fetch"

logoutCount == Cardinality({k \in 1..Len(verbs) : verbs[k][1] = "logout"})
sessionClosed == phase \in {"closed", "failed"} /\ logoutCount = 1
                 /\ verbs[Len(verbs)][1] = "logout"

\* C18: a run that has reached Connected eventually closes the session; an
\* exhausted batch (an empty one too) and the early return after a failed
\* search end in Closed; logout is sent at most once and nothing is sent after
\* it; and no run fails because the logout call failed.
C18_SessionEventuallyClosedOnce ==
    /\ [](/\ logoutCount <= 1
          /\ logoutCount = 1 => verbs[Len(verbs)][1] = "logout"
          /\ phase = "closed" => sessionClosed
          /\ failure # "logout")
    /\ (phase = "connected") ~> sessionClosed
    /\ (phase = "iterating" /\ i = Len(msg_ids)) ~> (phase = "closed")

\* C19: for a limit of at least 1 the batch of the loop has exactly
\* min(limit, 200, n) identifiers; no run fetches more than that, and a run
\* whose loop runs to its end fetches exactly that many.
C19_HardCap ==
    limit >= 1 =>
        LET capped == Min(Min(limit, 200), Len(mailbox))
        IN /\ phase = "iterating" => Len(msg_ids) = capped
           /\ fetchCount <= capped
           /\ (phase = "closed" /\ failure = "none") => fetchCount = capped /\ i = capped
C19_Witness ==
    /\ phase = "closed"
    /\ failure = "none"
    /\ limit > 200
    /\ Len(mailbox) > 200
    /\ fetchCount = 200

\* what scoring message m alone can put into the two risk cells of its row
ownRisk(m) ==
    {<< <<>>, <<>> >>}
    \cup {<< PyInt(risk_score_of(Artifact[m].permille)),
             join(<<",", " ">>, top_tokens_of(feats, coef_, Artifact[m].idx, eo)) >> :
          eo \in ExplainOutcomes}

\* C20: every cell of a ledger row (after the time stamp) is determined by the
\* message the row was written for and by the model; the row of a step whose
\* scoring failed has empty risk cells, whatever was scored before it.
C20_NoLeakBetweenIterations ==
    /\ Len(rowSrc) = Len(file.rows)
    /\ \A r \in 2..Len(file.rows) :
         LET m == mailbox[rowSrc[r][2]]
             d == Decoded[m]
             x == Inputs[m]
             row == file.rows[r]
         IN /\ row[2] = d.from_
            /\ row[3] = d.subject
            /\ row[4] = d.date_h
            /\ row[5] = d.has_pdf
            /\ row[6] = join(<<",", " ">>, d.attach_names)
            /\ row[7] = d.reason
            /\ row[8] = d.message_id
            /\ row[9] = x.from_domain
            /\ row[10] = x.reply_domain
            /\ row[11] = x.attachment_types
            /\ row[12] = (IF IsNone(x.amount_value) THEN <<>> ELSE x.amount_value)
            /\ <<row[13], row[14]>> \in ownRisk(m)
    /\ \A k \in 1..Len(hist) :
         (hist[k].result = "saved" /\ hist[k].score_failed) =>
             \A r \in rowsOf(run, hist[k].id) :
                 file.rows[r][13] = <<>> /\ file.rows[r][14] = <<>>
C20_Witness ==
    /\ Len(hist) = 2
    /\ hist[1].result = "saved"
    /\ ~hist[1].score_failed
    /\ mailbox[hist[1].id] = "A"
    /\ hist[2].result = "saved"
    /\ hist[2].score_failed
    /\ file.rows[Len(file.rows) - 1][13] = PyInt(87)
    /\ file.rows[Len(file.rows)][13] = <<>>
====
